---- MODULE Spec2Model ----
(***************************************************************************)
(* Model of life_expectancy/cleaning.py: clean_data(country_code).         *)
(*                                                                         *)
(* Strings are sequences of one-character strings, so that splitting,      *)
(* stripping, regex replacement and number parsing are computed character  *)
(* by character.  A table (DataFrame) is a sequence of column names and a  *)
(* sequence of rows; read_csv is taken to deliver every cell as a string   *)
(* (object dtype), which is what the raw file gives for columns that hold  *)
(* at least one annotated or missing cell.                                 *)
(***************************************************************************)
EXTENDS Integers, Sequences, FiniteSets, TLC

\* ---------------------------------------------------------------- bounds
MaxRows == 2
MaxCols == 2
MaxValueLen == 3

\* ------------------------------------------------------------ characters
DigitSeq == <<"0", "1", "2", "3", "4", "5", "6", "7", "8", "9">>

Digits == {DigitSeq[i] : i \in 1..10}

DigitVal(ch) == (CHOOSE i \in 1..10 : DigitSeq[i] = ch) - 1

RECURSIVE Pow10(_)
Pow10(n) == IF n = 0 THEN 1 ELSE 10 * Pow10(n - 1)

\* `None`, the filler str.split(expand=True) puts where a row has fewer parts
NoneVal == <<"None">>

\* the name the code looks the composite key column up by
KeyColumn == <<"u", "n", "i", "t", ",", "s", "e", "x", ",", "a", "g", "e", ",",
               "g", "e", "o", "\\", "t", "i", "m", "e">>

\* the literal of the query: a colon followed by one space
Sentinel == <<":", " ">>

\* -------------------------------------------------------------- inputs
Code_PT == <<"P", "T">>

Code_pt == <<"p", "t">>

Codes == {Code_PT, Code_pt}

Key_PT == <<"Y", ",", "F", ",", "A", ",", "P", "T">>

Key_pt == <<"Y", ",", "F", ",", "A", ",", "p", "t">>

Key_3 == <<"Y", ",", "F", ",", "P", "T">>

Keys == {Key_PT, Key_pt, Key_3}

\* what a cell may hold: the missing mark, an annotated number, and a colon
\* without its space
CellValues == <<Sentinel, <<"8", ".", "2", " ", "b">>, <<":">>>>

\* the header of the key column as it stands in the file, with a stray space
RawKeyHeader == <<"u", "n", "i", "t", ",", " ", "s", "e", "x", ",", "a", "g", "e", ",",
                  "g", "e", "o", "\\", "t", "i", "m", "e">>

\* the year headers the file may carry, latest first as in the raw file: one
\* with the trailing space of the raw file, one that is not a number
YearLabels == <<<<"1", "9", "9", "1">>, <<"1", "9", "9", "0", " ">>, <<"1", "9", "X", "0">>>>

\* the i-th smallest element of a set of numbers
Nth(S, i) == CHOOSE x \in S : Cardinality({y \in S : y < x}) = i - 1

\* the year columns of a file: 1..MaxCols of the headers, in their order
ColLists ==
  {[i \in 1..Cardinality(S) |-> YearLabels[Nth(S, i)]] :
     S \in {T \in SUBSET DOMAIN YearLabels : T # {} /\ Cardinality(T) <= MaxCols}}

\* the cells of one row: they start at any cell value and move on through
\* the cell values by any fixed stride, which for two year columns is every
\* pair of cell values
RowCells(nc, first, stride) ==
  [j \in 1..nc |-> CellValues[((first + (j - 1) * stride) % Len(CellValues)) + 1]]

RowVals(nc) ==
  {<<k>> \o RowCells(nc, f, d) :
     k \in Keys, f \in 0..(Len(CellValues) - 1), d \in 0..(Len(CellValues) - 1)}

Unreadable == [readable |-> FALSE, columns |-> <<>>, rows |-> <<>>]

\* f is the raw file: missing, or a table of 1..MaxRows rows under the key
\* column followed by 1..MaxCols distinct year columns
IsRawFile(f) ==
  \/ f = Unreadable
  \/ \E cl \in ColLists : \E n \in 1..MaxRows : \E rs \in [1..n -> RowVals(Len(cl))] :
        f = [readable |-> TRUE, columns |-> <<RawKeyHeader>> \o cl, rows |-> rs]

ValueAlphabet == {":", " ", "8", ".", "^", "b"}

ValueStrings == UNION {[1..n -> ValueAlphabet] : n \in 0..MaxValueLen}

\* ------------------------------------------------------------ the state
VARIABLES rawFile, files, result, lastReturned, value_in, value_out

vars == <<rawFile, files, result, lastReturned, value_in, value_out>>

\* ------------------------------------------------- string helper functions
\* columns.str.replace(' ', '')
RemoveSpaces(s) == SelectSeq(s, LAMBDA ch : ch # " ")

StripColumns(cols) == [i \in DOMAIN cols |-> RemoveSpaces(cols[i])]

\* str.split(','): the parts of s between commas
RECURSIVE str_split(_)
str_split(s) ==
  IF \A i \in DOMAIN s : s[i] # ","
    THEN <<s>>
    ELSE LET p == CHOOSE i \in DOMAIN s :
                    s[i] = "," /\ \A j \in 1..(i - 1) : s[j] # ","
         IN <<SubSeq(s, 1, p - 1)>> \o str_split(SubSeq(s, p + 1, Len(s)))

\* number of columns of str.split(expand=True): the longest split
ExpandWidth(keys) ==
  LET lens == {Len(str_split(keys[i])) : i \in DOMAIN keys}
  IN IF lens = {} THEN 0 ELSE CHOOSE m \in lens : \A l \in lens : l <= m

\* one row of the expanded split, padded with None up to the width w
ExpandRow(key, w) ==
  LET parts == str_split(key)
  IN [i \in 1..w |-> IF i <= Len(parts) THEN parts[i] ELSE NoneVal]

\* position of a column name among the columns, 0 when there is none
ColumnIndex(cols, name) ==
  IF \E i \in DOMAIN cols : cols[i] = name
    THEN CHOOSE i \in DOMAIN cols : cols[i] = name /\ \A j \in 1..(i - 1) : cols[j] # name
    ELSE 0

\* the sequence s without its k-th element (DataFrame.drop of one column)
DropAt(s, k) == SubSeq(s, 1, k - 1) \o SubSeq(s, k + 1, Len(s))

\* the frame after the four new columns are assigned and the key column is
\* dropped; src_row is the row label the DataFrame index carries
SplitFrame(rows, k) ==
  [i \in DOMAIN rows |->
     LET e == ExpandRow(rows[i][k], 4)
     IN [unit |-> e[1], sex |-> e[2], age |-> e[3], region |-> e[4],
         cells |-> DropAt(rows[i], k), src_row |-> i]]

\* a variant that compares region codes without regard to letter case
Lower(s) ==
  [i \in DOMAIN s |-> CASE s[i] = "P" -> "p" [] s[i] = "T" -> "t" [] OTHER -> s[i]]

filter_region_nocase(frame, code) ==
  SelectSeq(frame, LAMBDA r : Lower(r.region) = Lower(code))

\* life_expectancy_df[life_expectancy_df['region'] == country_code]
filter_region(frame, code) == SelectSeq(frame, LAMBDA r : r.region = code)

\* a variant of the reshape that emits the rows input row by input row
melt_row_major(frame, years) ==
  LET n == Len(frame)
      m == Len(years)
  IN [p \in 1..(n * m) |->
        LET i == ((p - 1) \div m) + 1
            j == ((p - 1) % m) + 1
        IN [unit |-> frame[i].unit, sex |-> frame[i].sex, age |-> frame[i].age,
            region |-> frame[i].region, year |-> years[j],
            value |-> frame[i].cells[j],
            src_row |-> frame[i].src_row, src_col |-> j]]

\* pd.melt(..., id_vars=[unit, sex, age, region]): the value columns are
\* stacked one after the other, each contributing all rows of the frame
melt(frame, years) ==
  LET n == Len(frame)
      m == Len(years)
  IN [p \in 1..(n * m) |->
        LET j == ((p - 1) \div n) + 1
            i == ((p - 1) % n) + 1
        IN [unit |-> frame[i].unit, sex |-> frame[i].sex, age |-> frame[i].age,
            region |-> frame[i].region, year |-> years[j],
            value |-> frame[i].cells[j],
            src_row |-> frame[i].src_row, src_col |-> j]]

\* a variant of the missing-value test that ignores surrounding spaces
IsSentinelStripped(v) == RemoveSpaces(v) = <<":">>

\* value == ": "
IsSentinel(v) == v = Sentinel

\* .query('value != ": "')
query(frame) == SelectSeq(frame, LAMBDA r : ~IsSentinel(r.value))

\* the characters the class [^0-9.^0-9] does not match, hence keeps
KeptChars == Digits \cup {".", "^"}

\* str.replace(r'[^0-9.^0-9]', '', regex=True)
str_replace(s) == SelectSeq(s, LAMBDA ch : ch \in KeptChars)

RECURSIVE ParseDigits(_)
ParseDigits(s) ==
  IF s = <<>> THEN 0
  ELSE 10 * ParseDigits(SubSeq(s, 1, Len(s) - 1)) + DigitVal(s[Len(s)])

\* a float: mant / 10^scale with no trailing zero in the fraction, or NaN
NaN == [nan |-> TRUE, mant |-> 0, scale |-> 0]

RECURSIVE Normalise(_, _)
Normalise(m, sc) ==
  IF sc > 0 /\ m % 10 = 0 THEN Normalise(m \div 10, sc - 1)
  ELSE [nan |-> FALSE, mant |-> m, scale |-> sc]

ParsesAsFloat(s) ==
  /\ \A i \in DOMAIN s : s[i] \in Digits \cup {"."}
  /\ Cardinality({i \in DOMAIN s : s[i] = "."}) <= 1
  /\ \E i \in DOMAIN s : s[i] \in Digits

ParseFloat(s) ==
  LET ds == SelectSeq(s, LAMBDA ch : ch \in Digits)
      dots == {i \in DOMAIN s : s[i] = "."}
      frac == IF dots = {} THEN 0 ELSE Len(s) - (CHOOSE i \in dots : TRUE)
  IN Normalise(ParseDigits(ds), frac)

\* a variant that yields 0 where the string is not a number
to_numeric_zero(s) ==
  IF ParsesAsFloat(s) THEN ParseFloat(s) ELSE [nan |-> FALSE, mant |-> 0, scale |-> 0]

\* pd.to_numeric(..., errors='coerce')
to_numeric(s) == IF ParsesAsFloat(s) THEN ParseFloat(s) ELSE NaN

CleanValues(frame) ==
  [p \in DOMAIN frame |-> [frame[p] EXCEPT !.value = to_numeric(str_replace(@))]]

\* int(label) succeeds
IsIntLiteral(s) == s # <<>> /\ \A i \in DOMAIN s : s[i] \in Digits

\* .astype(int) of the year column
astype_int(frame) == [p \in DOMAIN frame |-> [frame[p] EXCEPT !.year = ParseDigits(@)]]

\* ------------------------------------------------------- the output file
RECURSIVE FormatInt(_)
FormatInt(n) ==
  IF n < 10 THEN <<DigitSeq[n + 1]>>
  ELSE FormatInt(n \div 10) \o <<DigitSeq[(n % 10) + 1]>>

\* the w low decimal digits of n, leading zeros kept
RECURSIVE FormatFraction(_, _)
FormatFraction(n, w) ==
  IF w = 0 THEN <<>>
  ELSE FormatFraction(n \div 10, w - 1) \o <<DigitSeq[(n % 10) + 1]>>

\* how to_csv prints a float: NaN as the empty field, 82.0 with its ".0"
FormatFloat(v) ==
  IF v.nan THEN <<>>
  ELSE FormatInt(v.mant \div Pow10(v.scale)) \o <<".">> \o
       (IF v.scale = 0 THEN <<"0">> ELSE FormatFraction(v.mant % Pow10(v.scale), v.scale))

CsvHeader == <<"unit", "sex", "age", "region", "year", "value">>

Absent == [exists |-> FALSE, header |-> <<>>, rows |-> <<>>]

\* a file left behind by an earlier run on other data
Stale ==
  [exists |-> TRUE, header |-> CsvHeader,
   rows |-> << <<<<"Y">>, <<"M">>, <<"A">>, <<"P", "T">>, <<"1", "9", "8", "9">>,
                 <<"7", ".", "0">>>> >>]

CsvRows(frame) ==
  [p \in DOMAIN frame |->
     <<frame[p].unit, frame[p].sex, frame[p].age, frame[p].region,
       FormatInt(frame[p].year), FormatFloat(frame[p].value)>>]

\* a variant that leaves the file without a header line when there is no row
to_csv_bare_when_empty(frame) ==
  [exists |-> TRUE, header |-> IF frame = <<>> THEN <<>> ELSE CsvHeader,
   rows |-> CsvRows(frame)]

\* DataFrame.to_csv(path, index=False): header line, then one line per row
to_csv(frame) == [exists |-> TRUE, header |-> CsvHeader, rows |-> CsvRows(frame)]

\* a variant with the file name of the comment, whatever the code
output_file_path_fixed(code) == Code_pt \o <<"_life_expectancy.csv">>

\* f'{country_code}_life_expectancy.csv'
output_file_path(code) == code \o <<"_life_expectancy.csv">>

\* the output files of the data directory, one per code
FileName(code) == code \o <<"_life_expectancy.csv">>

Paths == {FileName(c) : c \in Codes}

\* ----------------------------------------------------- the transformation
Raised(line) == [status |-> "raised", line |-> line, frame |-> <<>>]

Returned(frame) == [status |-> "returned", line |-> 65, frame |-> frame]

\* line 54: int() of a year label that is not a number raises
ConvertYears(melted) ==
  IF \E p \in DOMAIN melted : ~IsIntLiteral(melted[p].year)
    THEN Raised(54)
    ELSE Returned(astype_int(melted))

\* lines 31-35: the assignment of the split to four columns raises unless
\* the split is four columns wide; lines 37-54 follow
SplitAndReshape(rows, cols, k, code) ==
  IF ExpandWidth([i \in DOMAIN rows |-> rows[i][k]]) # 4
    THEN Raised(31)
    ELSE ConvertYears(CleanValues(query(melt(
           filter_region(SplitFrame(rows, k), code), DropAt(cols, k)))))

\* line 32: looking the key column up by name raises when there is none
LookupKey(rows, cols, k, code) ==
  IF k = 0 THEN Raised(32) ELSE SplitAndReshape(rows, cols, k, code)

\* lines 28-54, given the table read_csv delivered: the first statement
\* that raises ends the run
WithColumns(rows, cols, code) == LookupKey(rows, cols, ColumnIndex(cols, KeyColumn), code)

Transform(table, code) == WithColumns(table.rows, StripColumns(table.columns), code)

\* the outcome of one call, before the file is written
Run(file, code) == IF ~file.readable THEN Raised(25) ELSE Transform(file, code)

\* a variant that opens (and so truncates) the output file before the run
PersistTruncating(fs, path, out) ==
  IF out.status = "returned" THEN [fs EXCEPT ![path] = to_csv(out.frame)]
  ELSE [fs EXCEPT ![path] = [exists |-> TRUE, header |-> <<>>, rows |-> <<>>]]

\* to_csv is the last statement before return: it runs only when nothing raised
Persist(fs, path, out) ==
  IF out.status = "returned" THEN [fs EXCEPT ![path] = to_csv(out.frame)] ELSE fs

NoResult == [status |-> "none", line |-> 0, frame |-> <<>>, code |-> <<>>]

NoReturn == [valid |-> FALSE, frame |-> <<>>]

NoValue == [done |-> FALSE, str |-> <<>>, num |-> NaN]

InitFiles == [p \in Paths |-> IF p = FileName(Code_PT) THEN Stale ELSE Absent]

Init ==
  /\ IsRawFile(rawFile)
  /\ files = InitFiles
  /\ result = NoResult
  /\ lastReturned = [c \in Codes |-> NoReturn]
  /\ value_in = <<>>
  /\ value_out = NoValue

\* one call clean_data(country_code=code), from read_csv to return
clean_data(code) ==
  \E out \in {Run(rawFile, code)} :
     /\ result' = [status |-> out.status, line |-> out.line, frame |-> out.frame,
                   code |-> code]
     /\ files' = Persist(files, output_file_path(code), out)
     /\ lastReturned' = IF out.status = "returned"
                          THEN [lastReturned EXCEPT ![code] =
                                  [valid |-> TRUE, frame |-> out.frame]]
                          ELSE lastReturned
     /\ UNCHANGED <<rawFile, value_in, value_out>>

Next == \E code \in Codes : clean_data(code)

Spec == Init /\ [][Next]_vars

\* ------------------------------------------- the value cleaning on its own
InitClean ==
  /\ rawFile = Unreadable
  /\ files = InitFiles
  /\ result = NoResult
  /\ lastReturned = [c \in Codes |-> NoReturn]
  /\ value_in \in ValueStrings
  /\ value_out = NoValue

\* the two calls of lines 49-52 applied to one cell
clean_value ==
  /\ ~value_out.done
  /\ value_out' = [done |-> TRUE, str |-> str_replace(value_in),
                   num |-> to_numeric(str_replace(value_in))]
  /\ UNCHANGED <<rawFile, files, result, lastReturned, value_in>>

NextClean == clean_value

SpecClean == InitClean /\ [][NextClean]_vars

\* ------------------------------------------- vocabulary of the properties
Called == result.status # "none"

Completed == result.status = "returned"

Aborted == result.status = "raised"

Out == result.frame

\* the raw table seen from outside: its key strings, year headers and cells
RawRows == DOMAIN rawFile.rows

YearCols == 1..(Len(rawFile.columns) - 1)

KeyParts(r) == str_split(rawFile.rows[r][1])

Label(j) == RemoveSpaces(rawFile.columns[j + 1])

Cell(r, j) == rawFile.rows[r][j + 1]

WellFormedKeys == rawFile.readable /\ \A r \in RawRows : Len(KeyParts(r)) = 4

WellFormedYears == rawFile.readable /\ \A j \in YearCols : IsIntLiteral(Label(j))

Matching(code) == {r \in RawRows : Len(KeyParts(r)) >= 4 /\ KeyParts(r)[4] = code}

\* the (row, year column) pairs of the rows of the code whose cell is not ": "
Surviving(code) ==
  {rj \in Matching(code) \X YearCols : Cell(rj[1], rj[2]) # <<":", " ">>}

SentinelCells(code) ==
  {rj \in Matching(code) \X YearCols : Cell(rj[1], rj[2]) = <<":", " ">>}

Source(p) == <<Out[p].src_row, Out[p].src_col>>

FileOf(code) == files[FileName(code)]

\* C1: after a completed call every row of the returned table and every line
\* of the file written has region equal to the code passed, character by
\* character (so a region differing only in letter case is not there)
C1_FilterCorrectness ==
  Completed =>
    /\ \A p \in DOMAIN Out : Out[p].region = result.code
    /\ \A p \in DOMAIN FileOf(result.code).rows :
         FileOf(result.code).rows[p][4] = result.code

C1_Witness ==
  /\ Completed
  /\ Out # <<>>
  /\ \E r \in RawRows :
       /\ Len(KeyParts(r)) = 4
       /\ KeyParts(r)[4] # result.code
       /\ Lower(KeyParts(r)[4]) = Lower(result.code)

C4_MalformedKeyAborts ==
  (Called /\ rawFile.readable /\ \E r \in RawRows : Len(KeyParts(r)) # 4) => Aborted

\* C5: a call on a table with a year label that is not an integer ends in an
\* error, whatever the code and the cells
C5_BadYearLabelAborts ==
  (Called /\ rawFile.readable /\ \E j \in YearCols : ~IsIntLiteral(Label(j))) => Aborted

\* C6: a call that ends in an error (file unreadable, split not four wide,
\* year not an integer) leaves every output file as it was
C6_AbortWritesNothing == [][result'.status = "raised" => files' = files]_vars

C6_Witness ==
  /\ Aborted
  /\ result.line = 54
  /\ FileOf(result.code) = Stale

\* C7 as claimed: the output rows go input row by input row, and by year
\* column within one input row
C7_RowThenYearOrder ==
  (Completed /\ WellFormedKeys) =>
    \A p, q \in DOMAIN Out :
      p < q => \/ Out[p].src_row < Out[q].src_row
               \/ Out[p].src_row = Out[q].src_row /\ Out[p].src_col < Out[q].src_col

\* C7 as amended: the output rows go year column by year column, and by
\* input row within one year column
C7_YearThenRowOrder ==
  (Completed /\ WellFormedKeys) =>
    \A p, q \in DOMAIN Out :
      p < q => \/ Out[p].src_col < Out[q].src_col
               \/ Out[p].src_col = Out[q].src_col /\ Out[p].src_row < Out[q].src_row

C7_Witness ==
  /\ Completed
  /\ WellFormedKeys
  /\ Cardinality(Matching(result.code)) >= 2
  /\ Cardinality(YearCols) >= 2
  /\ Len(Out) = Cardinality(Matching(result.code)) * Cardinality(YearCols)

====
